---- MODULE Spec2Model ----
(***************************************************************************)
(* Waybar pomodoro timer: one short-lived process per invocation.  Each    *)
(* invocation loads the state file, applies at most one command, runs      *)
(* get_output (completion check + rendering), saves the state file and     *)
(* prints one payload.                                                     *)
(*                                                                         *)
(* Time.  Instants (datetime) are integers; one model unit is one second   *)
(* and stands for the resolution of datetime (a microsecond in the         *)
(* program).  remaining_secs is a float and can hold values finer than     *)
(* that resolution: it is kept as an integer number of 1/FracDen seconds.  *)
(* timedelta(seconds=x) rounds x to the resolution, half to even.          *)
(*                                                                         *)
(* Environment.  save_state is taken to succeed (its IOError branch only   *)
(* prints to stderr); load_state is modelled on every kind of file         *)
(* content.                                                                *)
(***************************************************************************)
EXTENDS Integers, Sequences, FiniteSets, TLC

VARIABLES
    file,      \* content of STATE_FILE
    clock,     \* wall clock, what datetime.now() returns
    inv,       \* the invocation that just completed (NoInv after a clock tick)
    prev,      \* the invocation before inv, when both are toggles and no
               \* clock tick came between them (NoInv otherwise)
    tracked,   \* ghost: the persisted session was started by Cycle and has
               \*        since seen only toggle and status invocations
    ran,       \* ghost: seconds the tracked session has spent Running
    procs,     \* the two processes of an overlap: what each has loaded
    race       \* ghost: the lost update the last save produced, if any

vars == <<file, clock, inv, prev, tracked, ran, procs, race>>

(* ------------------------------ configuration ------------------------- *)

WORK_MINS == 25
SHORT_BREAK_MINS == 5
LONG_BREAK_MINS == 15
SESSIONS_PER_CYCLE == 4

(* ------------------------------ model bounds -------------------------- *)

FracDen == 2          \* remaining_secs is held in 1/FracDen seconds
MaxTime == 7201       \* the clock stops advancing here
MaxLag == 1           \* seconds between the two datetime.now() of one run
MaxWS == 4            \* largest work_sessions in an arbitrary loaded record

CoarseStep == SHORT_BREAK_MINS * 60
AnyWindow == CoarseStep
RanCap == WORK_MINS * 60 + CoarseStep
StartAny == ((MaxTime - AnyWindow) \div CoarseStep) * CoarseStep

(* ------------------------------ enums --------------------------------- *)

\* SessionType member names (what to_dict stores)
SessionType == {"WORK", "SHORT_BREAK", "LONG_BREAK"}

\* SessionType.__str__: the member's value, used in tooltips
SessionValue(t) ==
    CASE t = "WORK" -> "WORK"
      [] t = "SHORT_BREAK" -> "SHORT BREAK"
      [] t = "LONG_BREAK" -> "LONG BREAK"
      [] OTHER -> ""

TimerState == {"STOPPED", "RUNNING", "PAUSED", "FINISHED"}

None == -1   \* end_time = None

(* ------------------------------ PomodoroState ------------------------- *)

PomodoroState(state, session_type, end_time, remaining_secs, work_sessions) ==
    [state |-> state, session_type |-> session_type, end_time |-> end_time,
     remaining_secs |-> remaining_secs, work_sessions |-> work_sessions]

stopped == PomodoroState("STOPPED", "WORK", None, 0, 0)

\* float(n) for a whole number of seconds n
Secs(n) == n * FracDen

\* timedelta(seconds=x): x in 1/FracDen seconds, rounded to the resolution,
\* ties to even
timedelta(x) ==
    LET q == x \div FracDen
        r == x % FracDen
    IN  IF 2 * r < FracDen THEN q
        ELSE IF 2 * r > FracDen THEN q + 1
        ELSE IF q % 2 = 0 THEN q ELSE q + 1

\* (a - b).total_seconds() for two instants
total_seconds(a, b) == Secs(a - b)

\* int(x) for a float x: truncation toward zero
int(x) == IF x >= 0 THEN x \div FracDen ELSE -((-x) \div FracDen)

(* ------------------------------ the state file ------------------------ *)

\* A JSON value as from_dict sees it.  k is its kind:
\*   "absent"  the key is not in the object
\*   "null"    JSON null
\*   "str"     a string s that is neither a number nor a timestamp
\*   "iso"     a string that is the ISO-8601 form of instant n
\*   "int"     the integer n
\*   "frac"    the float n / FracDen
\*   "other"   a list or an object
Raw(k, s, n) == [k |-> k, s |-> s, n |-> n]
Absent == Raw("absent", "", 0)
Null == Raw("null", "", 0)
Str(s) == Raw("str", s, 0)
Iso(t) == Raw("iso", "", t)
IntV(n) == Raw("int", "", n)
Frac(n) == Raw("frac", "", n)
Other == Raw("other", "", 0)

NoData ==
    [state |-> Absent, session_type |-> Absent, end_time |-> Absent,
     remaining_secs |-> Absent, work_sessions |-> Absent]

\* kind: "missing" (no such path), "unreadable" (open fails with IOError),
\* "garbage" (empty or not JSON), "nonobject" (JSON, but not an object),
\* "object" (a JSON object, its members in data)
File(kind, data) == [kind |-> kind, data |-> data]
Missing == File("missing", NoData)

\* PomodoroState.to_dict followed by json.dump
to_dict(st) ==
    [state |-> Str(st.state),
     session_type |-> Str(st.session_type),
     end_time |-> IF st.end_time # None THEN Iso(st.end_time) ELSE Null,
     remaining_secs |-> Frac(st.remaining_secs),
     work_sessions |-> IntV(st.work_sessions)]

\* Python truthiness of a JSON value (data["end_time"] in a condition)
Truthy(v) ==
    CASE v.k = "null" -> FALSE
      [] v.k = "str" -> v.s # ""
      [] v.k \in {"int", "frac"} -> v.n # 0
      [] OTHER -> TRUE

\* Outcome of one conversion inside from_dict's try block:
\* "ok" with a value, "caught" (KeyError or TypeError), "raised" (ValueError)
Conv(res, val) == [res |-> res, val |-> val]

\* TimerState[data["state"]]
ConvState(v) ==
    IF v.k = "str" /\ v.s \in TimerState THEN Conv("ok", v.s)
    ELSE Conv("caught", "")

\* SessionType[data["session_type"]]
ConvSessionType(v) ==
    IF v.k = "str" /\ v.s \in SessionType THEN Conv("ok", v.s)
    ELSE Conv("caught", "")

\* datetime.fromisoformat(data["end_time"]) if data["end_time"] else None
ConvEndTime(v) ==
    CASE v.k = "absent" -> Conv("caught", None)
      [] ~Truthy(v) -> Conv("ok", None)
      [] v.k = "iso" -> Conv("ok", v.n)
      [] v.k = "str" -> Conv("raised", None)
      [] OTHER -> Conv("caught", None)

\* float(data.get("remaining_secs", 0))
ConvRemaining(v) ==
    CASE v.k = "absent" -> Conv("ok", 0)
      [] v.k = "int" -> Conv("ok", Secs(v.n))
      [] v.k = "frac" -> Conv("ok", v.n)
      [] v.k \in {"str", "iso"} -> Conv("raised", 0)
      [] OTHER -> Conv("caught", 0)

\* int(data.get("work_sessions", 0))
ConvWorkSessions(v) ==
    CASE v.k = "absent" -> Conv("ok", 0)
      [] v.k = "int" -> Conv("ok", v.n)
      [] v.k = "frac" -> Conv("ok", int(v.n))
      [] v.k \in {"str", "iso"} -> Conv("raised", 0)
      [] OTHER -> Conv("caught", 0)

\* Result of load_state: the record it returns, or raised = TRUE when an
\* exception leaves it
Loaded(raised, rec) == [raised |-> raised, rec |-> rec]

\* PomodoroState.from_dict on a JSON object; the conversions run in order
\* and the first one that fails decides
from_dict(data) ==
    LET seq == <<ConvState(data.state), ConvSessionType(data.session_type),
                 ConvEndTime(data.end_time), ConvRemaining(data.remaining_secs),
                 ConvWorkSessions(data.work_sessions)>>
        bad == {i \in 1..5 : seq[i].res # "ok"}
        first == CHOOSE i \in bad : \A j \in bad : i <= j
    IN  IF bad = {}
        THEN Loaded(FALSE, PomodoroState(seq[1].val, seq[2].val, seq[3].val,
                                         seq[4].val, seq[5].val))
        ELSE IF seq[first].res = "caught" THEN Loaded(FALSE, stopped)
        ELSE Loaded(TRUE, stopped)

load_state(f) ==
    CASE f.kind = "missing" -> Loaded(FALSE, stopped)
      [] f.kind \in {"unreadable", "garbage"} -> Loaded(FALSE, stopped)
      [] f.kind = "nonobject" -> Loaded(FALSE, stopped)
      [] OTHER -> from_dict(f.data)

\* save_state: the file becomes the JSON object of the record
save_state(st) == File("object", to_dict(st))

(* ------------------------------ core timer logic ---------------------- *)

get_session_duration_secs(session_type) ==
    CASE session_type = "WORK" -> WORK_MINS * 60
      [] session_type = "SHORT_BREAK" -> SHORT_BREAK_MINS * 60
      [] session_type = "LONG_BREAK" -> LONG_BREAK_MINS * 60
      [] OTHER -> 0

start_session(session_type, work_sessions, now) ==
    LET duration_secs == get_session_duration_secs(session_type)
    IN  PomodoroState("RUNNING", session_type, now + duration_secs,
                      Secs(duration_secs), work_sessions)

\* Result of a step of main's try block: err = TRUE when it raised
Res(err, st) == [err |-> err, st |-> st]

\* toggle_pause with the pause branch leaving remaining_secs as it was
toggle_pause_stale(state, now) ==
    IF state.state = "RUNNING"
    THEN IF state.end_time = None THEN Res(TRUE, state)
         ELSE Res(FALSE, [state EXCEPT !.state = "PAUSED", !.end_time = None])
    ELSE IF state.state = "PAUSED"
    THEN Res(FALSE, [state EXCEPT
                    !.state = "RUNNING",
                    !.end_time = now + timedelta(state.remaining_secs)])
    ELSE Res(FALSE, state)

\* toggle_pause with the resume branch taken by every state that is not
\* RUNNING (else in place of elif)
toggle_pause_else(state, now) ==
    IF state.state = "RUNNING"
    THEN IF state.end_time = None THEN Res(TRUE, state)
         ELSE Res(FALSE, [state EXCEPT
                    !.state = "PAUSED",
                    !.remaining_secs = total_seconds(state.end_time, now),
                    !.end_time = None])
    ELSE Res(FALSE, [state EXCEPT
                    !.state = "RUNNING",
                    !.end_time = now + timedelta(state.remaining_secs)])

\* toggle_pause with the pause branch leaving end_time set
toggle_pause_keepend(state, now) ==
    IF state.state = "RUNNING"
    THEN IF state.end_time = None THEN Res(TRUE, state)
         ELSE Res(FALSE, [state EXCEPT
                    !.state = "PAUSED",
                    !.remaining_secs = total_seconds(state.end_time, now)])
    ELSE IF state.state = "PAUSED"
    THEN Res(FALSE, [state EXCEPT
                    !.state = "RUNNING",
                    !.end_time = now + timedelta(state.remaining_secs)])
    ELSE Res(FALSE, state)

\* state.end_time - now is a TypeError when end_time is None
toggle_pause(state, now) ==
    IF state.state = "RUNNING"
    THEN IF state.end_time = None THEN Res(TRUE, state)
         ELSE Res(FALSE, [state EXCEPT
                    !.state = "PAUSED",
                    !.remaining_secs = total_seconds(state.end_time, now),
                    !.end_time = None])
    ELSE IF state.state = "PAUSED"
    THEN Res(FALSE, [state EXCEPT
                    !.state = "RUNNING",
                    !.end_time = now + timedelta(state.remaining_secs)])
    ELSE Res(FALSE, state)

stop_timer == stopped

\* the tooltip's lookahead testing the count before the increment
NextSessionType_offby(state) ==
    IF state.session_type = "WORK"
    THEN IF state.work_sessions % SESSIONS_PER_CYCLE = 0
         THEN "LONG_BREAK" ELSE "SHORT_BREAK"
    ELSE "WORK"

\* the session a finished session is followed by
NextSessionType(state) ==
    IF state.session_type = "WORK"
    THEN IF (state.work_sessions + 1) % SESSIONS_PER_CYCLE = 0
         THEN "LONG_BREAK" ELSE "SHORT_BREAK"
    ELSE "WORK"

\* cycle_state testing the count before the increment
cycle_state_offby(state, now) ==
    CASE state.state \in {"RUNNING", "PAUSED"} -> stop_timer
      [] state.state = "STOPPED" -> start_session("WORK", 0, now)
      [] state.state = "FINISHED" ->
            CASE state.session_type = "WORK" ->
                    IF state.work_sessions % SESSIONS_PER_CYCLE = 0
                    THEN start_session("LONG_BREAK", state.work_sessions + 1, now)
                    ELSE start_session("SHORT_BREAK", state.work_sessions + 1, now)
              [] state.session_type = "SHORT_BREAK" ->
                    start_session("WORK", state.work_sessions, now)
              [] OTHER -> start_session("WORK", 0, now)

\* cycle_state keeping the count after a long break
cycle_state_noreset(state, now) ==
    CASE state.state \in {"RUNNING", "PAUSED"} -> stop_timer
      [] state.state = "STOPPED" -> start_session("WORK", 0, now)
      [] state.state = "FINISHED" ->
            CASE state.session_type = "WORK" ->
                    IF (state.work_sessions + 1) % SESSIONS_PER_CYCLE = 0
                    THEN start_session("LONG_BREAK", state.work_sessions + 1, now)
                    ELSE start_session("SHORT_BREAK", state.work_sessions + 1, now)
              [] state.session_type = "SHORT_BREAK" ->
                    start_session("WORK", state.work_sessions, now)
              [] OTHER -> start_session("WORK", state.work_sessions, now)

\* cycle_state starting from STOPPED with the stored count
cycle_state_keepcount(state, now) ==
    CASE state.state \in {"RUNNING", "PAUSED"} -> stop_timer
      [] state.state = "STOPPED" -> start_session("WORK", state.work_sessions, now)
      [] state.state = "FINISHED" ->
            CASE state.session_type = "WORK" ->
                    IF (state.work_sessions + 1) % SESSIONS_PER_CYCLE = 0
                    THEN start_session("LONG_BREAK", state.work_sessions + 1, now)
                    ELSE start_session("SHORT_BREAK", state.work_sessions + 1, now)
              [] state.session_type = "SHORT_BREAK" ->
                    start_session("WORK", state.work_sessions, now)
              [] OTHER -> start_session("WORK", 0, now)

\* cycle_state skipping an active session to the next work session
cycle_state_skip(state, now) ==
    CASE state.state \in {"RUNNING", "PAUSED"} -> start_session("WORK", state.work_sessions, now)
      [] state.state = "STOPPED" -> start_session("WORK", 0, now)
      [] state.state = "FINISHED" ->
            CASE state.session_type = "WORK" ->
                    IF (state.work_sessions + 1) % SESSIONS_PER_CYCLE = 0
                    THEN start_session("LONG_BREAK", state.work_sessions + 1, now)
                    ELSE start_session("SHORT_BREAK", state.work_sessions + 1, now)
              [] state.session_type = "SHORT_BREAK" ->
                    start_session("WORK", state.work_sessions, now)
              [] OTHER -> start_session("WORK", 0, now)

cycle_state(state, now) ==
    CASE state.state \in {"RUNNING", "PAUSED"} -> stop_timer
      [] state.state = "STOPPED" -> start_session("WORK", 0, now)
      [] state.state = "FINISHED" ->
            CASE state.session_type = "WORK" ->
                    IF (state.work_sessions + 1) % SESSIONS_PER_CYCLE = 0
                    THEN start_session("LONG_BREAK", state.work_sessions + 1, now)
                    ELSE start_session("SHORT_BREAK", state.work_sessions + 1, now)
              [] state.session_type = "SHORT_BREAK" ->
                    start_session("WORK", state.work_sessions, now)
              [] OTHER -> start_session("WORK", 0, now)

(* ------------------------------ output -------------------------------- *)

\* The payload: class, the MM:SS of text, and the sessions the tooltip names
Payload(class, mins, secs, session, next) ==
    [class |-> class, mins |-> mins, secs |-> secs,
     session |-> session, next |-> next]

ErrorPayload == Payload("error", 0, 0, "", "")

\* a completion check that also counts the Work session it finishes
CompletionCheck_counts(state, now) ==
    IF state.state = "RUNNING" /\ state.end_time # None /\ now >= state.end_time
    THEN [state EXCEPT !.state = "FINISHED", !.end_time = None,
                       !.remaining_secs = 0,
                       !.work_sessions =
                           IF state.session_type = "WORK" THEN @ + 1 ELSE @]
    ELSE state

\* a completion check that does not look at the clock
CompletionCheck_eager(state, now) ==
    IF state.state = "RUNNING" /\ state.end_time # None
    THEN [state EXCEPT !.state = "FINISHED", !.end_time = None,
                       !.remaining_secs = 0]
    ELSE state

\* a completion check that fires only strictly after end_time
CompletionCheck_strict(state, now) ==
    IF state.state = "RUNNING" /\ state.end_time # None /\ now > state.end_time
    THEN [state EXCEPT !.state = "FINISHED", !.end_time = None,
                       !.remaining_secs = 0]
    ELSE state

\* get_output step 1: the completion check
CompletionCheck(state, now) ==
    IF state.state = "RUNNING" /\ state.end_time # None /\ now >= state.end_time
    THEN [state EXCEPT !.state = "FINISHED", !.end_time = None,
                       !.remaining_secs = 0]
    ELSE state

\* get_output step 2: the payload of the (possibly updated) state
Render(state, now) ==
    CASE state.state = "STOPPED" -> Payload("stopped", 0, 0, "", "")
      [] state.state = "FINISHED" ->
            Payload("finished", 0, 0, SessionValue(state.session_type),
                    SessionValue(NextSessionType(state)))
      [] state.state = "PAUSED" ->
            Payload("paused", int(state.remaining_secs) \div 60,
                    int(state.remaining_secs) % 60,
                    SessionValue(state.session_type), "")
      [] OTHER ->
            LET remaining == total_seconds(state.end_time, now)
                shown == IF remaining > 0 THEN remaining ELSE 0
            IN  Payload(IF state.session_type = "WORK" THEN "work" ELSE "break",
                        int(shown) \div 60, int(shown) % 60,
                        SessionValue(state.session_type), "")

\* get_output: the state it leaves and the payload, or err when it raises
\* (a RUNNING state without end_time reaches end_time - now)
get_output(state, now) ==
    LET st == CompletionCheck(state, now)
    IN  IF st.state = "RUNNING" /\ st.end_time = None
        THEN [err |-> TRUE, st |-> st, out |-> ErrorPayload]
        ELSE [err |-> FALSE, st |-> st, out |-> Render(st, now)]

(* ------------------------------ main ---------------------------------- *)

\* sys.argv[1]; "status" also stands for no argument, "skip" for a token
\* main does not know
Commands == {"toggle", "stop", "cycle", "status", "skip"}

\* the dispatch without its stop branch
Dispatch_nostop(state, command, now) ==
    CASE command = "toggle" -> toggle_pause(state, now)
      [] command = "cycle" -> Res(FALSE, cycle_state(state, now))
      [] OTHER -> Res(FALSE, state)

\* the command dispatch of main: now is the datetime.now() the command reads
Dispatch(state, command, now) ==
    CASE command = "toggle" -> toggle_pause(state, now)
      [] command = "stop" -> Res(FALSE, stop_timer)
      [] command = "cycle" -> Res(FALSE, cycle_state(state, now))
      [] OTHER -> Res(FALSE, state)

\* What one run of main did.  loaded: the record load_state returned;
\* raised: load_state raised; err: the except branch printed the error
\* payload; wrote: save_state ran; saved: the record it wrote; out: the
\* payload printed; now1, now2: the instants read by the command and by
\* get_output.
Invocation(cmd, now1, now2, ld, err, wrote, saved, out) ==
    [cmd |-> cmd, now1 |-> now1, now2 |-> now2, loaded |-> ld.rec,
     raised |-> ld.raised, err |-> err, wrote |-> wrote, saved |-> saved,
     out |-> out]

NoInv ==
    Invocation("none", 0, 0, Loaded(FALSE, stopped), FALSE, FALSE, stopped,
               ErrorPayload)

\* main with an except branch that prints nothing usable
main_silent(f, command, now1, now2) ==
    LET ld == load_state(f)
        cmdres == Dispatch(ld.rec, command, now1)
        outres == get_output(cmdres.st, now2)
    IN  IF ld.raised \/ cmdres.err \/ outres.err
        THEN Invocation(command, now1, now2, ld, TRUE, FALSE, ld.rec,
                        Payload("", 0, 0, "", ""))
        ELSE Invocation(command, now1, now2, ld, FALSE, TRUE, outres.st,
                        outres.out)

main(f, command, now1, now2) ==
    LET ld == load_state(f)
        cmdres == Dispatch(ld.rec, command, now1)
        outres == get_output(cmdres.st, now2)
    IN  IF ld.raised \/ cmdres.err \/ outres.err
        THEN Invocation(command, now1, now2, ld, TRUE, FALSE, ld.rec,
                        ErrorPayload)
        ELSE Invocation(command, now1, now2, ld, FALSE, TRUE, outres.st,
                        outres.out)

(* ------------------------------ actions ------------------------------- *)

\* the record a run would load now
Persisted == load_state(file).rec

\* the two processes whose runs may overlap
Procs == {"p", "q"}

\* a process between runs
IdleProc ==
    [pc |-> "idle", cmd |-> "status", f |-> Missing, fresh |-> FALSE,
     over |-> FALSE, fcmd |-> "status", fat |-> 0]

\* a process that has returned from load_state with file content f; fresh
\* until some process saves; over once the other process, which had loaded
\* before any save too, has saved with command fcmd at instant fat
LoadedProc(cmd, f) ==
    [pc |-> "loaded", cmd |-> cmd, f |-> f, fresh |-> TRUE,
     over |-> FALSE, fcmd |-> "status", fat |-> 0]

NoRace ==
    [set |-> FALSE, a |-> "status", t1 |-> 0, b |-> "status", t2 |-> 0,
     base |-> Missing, final |-> stopped]

\* a lag between the two clock reads of a run is explored once the clock
\* is within CoarseStep of MaxTime, and the clock strays at most MaxLag
\* seconds from the coarse instants
LagOK(lag) ==
    lag = 0 \/ (clock + CoarseStep > MaxTime
                  /\ (clock % CoarseStep) + lag <= MaxLag)

\* the ghost ran stops counting at RanCap, past every session duration
Capped(x) == IF x > RanCap THEN RanCap ELSE x

\* One run of the program: command cmd, with lag seconds between the
\* command's datetime.now() and get_output's.
Invoke(cmd, lag) ==
    /\ clock + lag <= MaxTime
    /\ LagOK(lag)
    /\ LET r == main(file, cmd, clock, clock + lag)
           \* the state between the command and get_output
           mid == Dispatch(r.loaded, cmd, clock).st
           started == r.wrote /\ cmd = "cycle"
                      /\ r.loaded.state \in {"STOPPED", "FINISHED"}
           reset == r.wrote /\ cmd \in {"stop", "cycle"} /\ ~started
       IN  /\ file' = IF r.wrote THEN save_state(r.saved) ELSE file
           /\ clock' = clock + lag
           /\ prev' = IF cmd = "toggle" /\ inv.cmd = "toggle" THEN inv ELSE NoInv
           /\ inv' = r
           /\ tracked' = IF started THEN TRUE
                         ELSE IF reset THEN FALSE ELSE tracked
           /\ ran' = CASE started -> lag
                       [] reset -> 0
                       [] tracked /\ r.wrote /\ mid.state = "RUNNING"
                            -> Capped(ran + lag)
                       [] OTHER -> ran
           /\ UNCHANGED <<procs, race>>

\* The clock advances by d seconds between runs.
Tick(d) ==
    /\ d > 0
    /\ clock + d <= MaxTime
    /\ clock' = clock + d
    /\ inv' = NoInv
    /\ prev' = NoInv
    /\ ran' = IF tracked /\ Persisted.state = "RUNNING" THEN Capped(ran + d) ELSE ran
    /\ race' = NoRace
    /\ UNCHANGED <<file, tracked, procs>>

Init ==
    /\ file = Missing
    /\ clock = 0
    /\ inv = NoInv
    /\ prev = NoInv
    /\ tracked = FALSE
    /\ ran = 0
    /\ procs = [p \in Procs |-> IdleProc]
    /\ race = NoRace

Next ==
    \/ \E cmd \in Commands, lag \in 0..MaxLag : Invoke(cmd, lag)
    \/ Tick(CoarseStep)

Spec == Init /\ [][Next]_vars

(* ------------------------------- polling ------------------------------ *)

\* the last instant the clock is sure to reach
LastInstant == (MaxTime \div CoarseStep) * CoarseStep

\* late enough for a Work session and a short break to end by LastInstant
StartLive == LastInstant - (WORK_MINS + SHORT_BREAK_MINS) * 60

\* the persisted session is Running and its end_time has been reached
Due ==
    LET state == Persisted
    IN  /\ state.state = "RUNNING"
        /\ state.end_time # None
        /\ clock >= state.end_time

\* The host's poll of a session that is due: main with no command, whose
\* get_output turns the record Finished and whose save_state persists it.
\* It is the step Invoke("status", 0) takes in these states.
Poll ==
    /\ Due
    /\ file' = save_state(CompletionCheck(Persisted, clock))
    /\ inv' = main(file, "status", clock, clock)
    /\ prev' = NoInv
    /\ UNCHANGED <<clock, tracked, ran, procs, race>>

InitLive ==
    /\ file = Missing
    /\ clock = StartLive
    /\ inv = NoInv
    /\ prev = NoInv
    /\ tracked = FALSE
    /\ ran = 0
    /\ procs = [p \in Procs |-> IdleProc]
    /\ race = NoRace

\* The host polls: time keeps passing, and a due session keeps being polled
\* until a poll happens.
SpecLive ==
    /\ InitLive
    /\ [][Next]_vars
    /\ WF_vars(Tick(CoarseStep))
    /\ WF_vars(Poll)

(* ------------------------- overlapping processes ---------------------- *)

\* a run that would load and save in one atomic step
Complete_atomic(p) == main(file, procs[p].cmd, clock, clock)

\* what a process does after load_state returned: the command, get_output
\* and save_state, on the record it loaded
Complete(p) == main(procs[p].f, procs[p].cmd, clock, clock)

\* main up to and including load_state
Begin(p, cmd) ==
    /\ procs[p].pc = "idle"
    /\ procs' = [procs EXCEPT ![p] = LoadedProc(cmd, file)]
    /\ race' = NoRace
    /\ UNCHANGED <<file, clock, inv, prev, tracked, ran>>

\* main from the command to save_state and print
Finish(p) ==
    /\ procs[p].pc = "loaded"
    /\ LET r == Complete(p)
       IN  /\ file' = IF r.wrote THEN save_state(r.saved) ELSE file
           /\ procs' =
                [q \in Procs |->
                    IF q = p THEN IdleProc
                    ELSE IF procs[q].pc = "loaded" /\ r.wrote
                    THEN [procs[q] EXCEPT
                             !.fresh = FALSE,
                             !.over = procs[q].fresh /\ procs[p].fresh,
                             !.fcmd = procs[p].cmd,
                             !.fat = clock]
                    ELSE procs[q]]
           /\ race' = IF procs[p].over /\ r.wrote
                      THEN [set |-> TRUE, a |-> procs[p].fcmd,
                            t1 |-> procs[p].fat, b |-> procs[p].cmd,
                            t2 |-> clock, base |-> procs[p].f,
                            final |-> r.saved]
                      ELSE NoRace
    /\ UNCHANGED <<clock, inv, prev, tracked, ran>>

\* processes start on the default state file late enough for one clock
\* tick to remain
InitRace ==
    /\ file = Missing
    /\ clock = StartAny
    /\ inv = NoInv
    /\ prev = NoInv
    /\ tracked = FALSE
    /\ ran = 0
    /\ procs = [p \in Procs |-> IdleProc]
    /\ race = NoRace

NextRace ==
    \/ \E p \in Procs, cmd \in Commands : Begin(p, cmd)
    \/ \E p \in Procs : Finish(p)
    \/ Tick(CoarseStep)

SpecRace == InitRace /\ [][NextRace]_vars

(* ------------------- arbitrary state files (SpecAny) ------------------ *)

\* remaining_secs values of an arbitrary record: zero, below the clock
\* resolution, between two clock units, a whole session's worth, negative
AnyRemaining == {0, 1, Secs(1) + 1, Secs(CoarseStep), -Secs(1)}

\* end_time values of an arbitrary record: none, the starting instant (and
\* so in the past after a tick), the instant after the next tick
AnyEndTime == {None, StartAny, StartAny + CoarseStep}

\* the records a well-formed state file can hold
AnyRecords ==
    {PomodoroState(s, t, e, r, w) :
        s \in TimerState, t \in SessionType, e \in AnyEndTime,
        r \in AnyRemaining, w \in 0..MaxWS}

\* The program is started at StartAny on any well-formed state file, or none.
InitAny ==
    /\ file \in {save_state(rec) : rec \in AnyRecords} \cup {Missing}
    /\ clock = StartAny
    /\ inv = NoInv
    /\ prev = NoInv
    /\ tracked = FALSE
    /\ ran = 0
    /\ procs = [p \in Procs |-> IdleProc]
    /\ race = NoRace

SpecAny == InitAny /\ [][Next]_vars

(* ------------------- load_state on any content (SpecLoad) ------------- *)

RawState == {Str(s) : s \in TimerState} \cup {Str("BOGUS"), Null, Absent}
RawSessionType ==
    {Str(t) : t \in SessionType} \cup {Str("SHORT BREAK"), Absent}
RawEndTime ==
    {Null, Iso(StartAny), Str("not-a-date"), Str(""), IntV(5), Absent}
RawRemaining ==
    {Frac(Secs(1) + 1), IntV(CoarseStep), Str("abc"), Null, Other, Absent}
RawWorkSessions == {IntV(2), Frac(Secs(2) + 1), Str("abc"), Null, Absent}

RawFiles ==
    {File("object",
          [state |-> s, session_type |-> t, end_time |-> e,
           remaining_secs |-> r, work_sessions |-> w]) :
        s \in RawState, t \in RawSessionType, e \in RawEndTime,
        r \in RawRemaining, w \in RawWorkSessions}
    \cup {File(k, NoData) : k \in {"missing", "unreadable", "garbage", "nonobject"}}

InitLoad ==
    /\ file \in RawFiles
    /\ clock = StartAny
    /\ inv = NoInv
    /\ prev = NoInv
    /\ tracked = FALSE
    /\ ran = 0
    /\ procs = [p \in Procs |-> IdleProc]
    /\ race = NoRace

\* load_state alone, as main's first step: inv records what it returned
Load ==
    /\ inv = NoInv
    /\ inv' = Invocation("load", clock, clock, load_state(file),
                         load_state(file).raised, FALSE, stopped, ErrorPayload)
    /\ UNCHANGED <<file, clock, prev, tracked, ran, procs, race>>

NextLoad == Load

SpecLoad == InitLoad /\ [][NextLoad]_vars

(* ============================== claims ================================ *)

\* a run of main has just completed and its load_state returned a record
Ran == inv.cmd \in Commands /\ ~inv.raised

\* the run wrote exactly rec, and a later run would load exactly rec
PersistedIs(rec) == inv.wrote /\ inv.saved = rec /\ Persisted = rec

\* the canonical default record, as the specification gives it
DefaultRecord ==
    [state |-> "STOPPED", session_type |-> "WORK", end_time |-> None,
     remaining_secs |-> 0, work_sessions |-> 0]

\* a Running record whose end_time has passed, turned Finished
TurnedFinished(rec) ==
    [rec EXCEPT !.state = "FINISHED", !.end_time = None, !.remaining_secs = 0]

\* C1: the completion check runs before the command: whenever a run loads a
\* Running record with now >= end_time, the record it persists is the
\* command applied to that record turned Finished (status and toggle leave
\* it Finished with remaining_secs = 0, cycle starts the next session by the
\* Finished rules, stop gives the default record).
C1_CheckBeforeCommand ==
    (/\ Ran
     /\ inv.cmd \in {"status", "toggle", "cycle", "stop"}
     /\ inv.loaded.state = "RUNNING"
     /\ inv.loaded.end_time # None
     /\ inv.now1 >= inv.loaded.end_time)
    => CASE inv.cmd \in {"status", "toggle"} ->
                PersistedIs(TurnedFinished(inv.loaded))
         [] inv.cmd = "cycle" ->
                PersistedIs(cycle_state(TurnedFinished(inv.loaded), inv.now1))
         [] OTHER -> PersistedIs(DefaultRecord)

\* C2: remaining time is accounted exactly across pause and resume, for a
\* session started by cycle and then driven by toggle and status runs:
\* Paused => remaining_secs = duration - time spent Running;
\* Running => end_time - now = the same quantity;
\* the session is Finished exactly from the first run at which the time
\* spent Running has reached the duration.
C2_ExactAccounting ==
    (Ran /\ inv.cmd \in {"toggle", "status"} /\ inv.wrote /\ tracked)
    => LET dur == get_session_duration_secs(inv.saved.session_type)
       IN  /\ inv.saved.state = "PAUSED"
                => inv.saved.remaining_secs = Secs(dur - ran)
           /\ inv.saved.state = "RUNNING"
                => inv.saved.end_time - clock = dur - ran
           /\ (inv.saved.state = "FINISHED") <=> (ran >= dur)

\* both of the last two runs were toggles that completed, every clock read
\* of both returning the same instant
TwoTogglesAtOneInstant ==
    /\ prev.cmd = "toggle" /\ inv.cmd = "toggle"
    /\ prev.wrote /\ inv.wrote
    /\ prev.now1 = prev.now2 /\ inv.now1 = inv.now2 /\ prev.now2 = inv.now1

\* session_type and work_sessions_completed as the first toggle loaded them
SameSession ==
    /\ inv.saved.session_type = prev.loaded.session_type
    /\ inv.saved.work_sessions = prev.loaded.work_sessions

\* C3 (as claimed): toggle twice at one instant is the identity: every
\* Running record with end_time e comes back Running with end_time e, every
\* Paused record with remaining_secs r comes back Paused with
\* remaining_secs r; session_type and work_sessions_completed unchanged.
C3_ToggleInvolution ==
    TwoTogglesAtOneInstant =>
        /\ prev.loaded.state = "RUNNING" =>
              /\ Persisted.state = "RUNNING"
              /\ Persisted.end_time = prev.loaded.end_time
              /\ SameSession
        /\ prev.loaded.state = "PAUSED" =>
              /\ Persisted.state = "PAUSED"
              /\ Persisted.remaining_secs = prev.loaded.remaining_secs
              /\ SameSession

\* C3 (amended): toggle twice at one instant now: a Running record with
\* end_time e > now comes back Running with end_time e; a Paused record
\* whose remaining_secs r exceeds half the clock resolution comes back
\* Paused with remaining_secs a whole number of clock units within half a
\* unit of r, hence exactly r when r is a whole number of units;
\* session_type and work_sessions_completed unchanged.
C3_ToggleInvolutionLive ==
    TwoTogglesAtOneInstant =>
        /\ (prev.loaded.state = "RUNNING" /\ prev.loaded.end_time > inv.now1) =>
              /\ PersistedIs(inv.saved)
              /\ inv.saved.state = "RUNNING"
              /\ inv.saved.end_time = prev.loaded.end_time
              /\ SameSession
        /\ (prev.loaded.state = "PAUSED"
              /\ 2 * prev.loaded.remaining_secs > FracDen) =>
              LET r == prev.loaded.remaining_secs
                  got == inv.saved.remaining_secs
              IN  /\ PersistedIs(inv.saved)
                  /\ inv.saved.state = "PAUSED"
                  /\ got % FracDen = 0
                  /\ 2 * (got - r) <= FracDen /\ 2 * (r - got) <= FracDen
                  /\ (r % FracDen = 0 => got = r)
                  /\ SameSession

\* C3 witness: a Paused record with a remaining_secs between two clock
\* units was resumed and paused again at one instant
C3_Witness ==
    /\ TwoTogglesAtOneInstant
    /\ prev.loaded.state = "PAUSED"
    /\ prev.loaded.remaining_secs = Secs(1) + 1
    /\ inv.saved.state = "PAUSED"
    /\ inv.saved.remaining_secs # prev.loaded.remaining_secs

\* C4: cycle on a Finished Work record with count n starts a Running
\* session with count n + 1, end_time = now + duration and remaining_secs =
\* duration, a LongBreak (15 min) exactly when (n + 1) mod 4 = 0 and a
\* ShortBreak (5 min) otherwise.
C4_CycleAfterWork ==
    (Ran /\ inv.cmd = "cycle" /\ inv.loaded.state = "FINISHED"
         /\ inv.loaded.session_type = "WORK")
    => LET n == inv.loaded.work_sessions
           long == (n + 1) % 4 = 0
           dur == IF long THEN 15 * 60 ELSE 5 * 60
       IN  PersistedIs([state |-> "RUNNING",
                        session_type |-> IF long THEN "LONG_BREAK"
                                                 ELSE "SHORT_BREAK",
                        end_time |-> inv.now1 + dur,
                        remaining_secs |-> Secs(dur),
                        work_sessions |-> n + 1])

\* C4 witness: the fourth Work session was acknowledged and a LongBreak runs
C4_Witness ==
    /\ Ran /\ inv.cmd = "cycle"
    /\ inv.loaded.state = "FINISHED" /\ inv.loaded.session_type = "WORK"
    /\ inv.loaded.work_sessions = 3
    /\ Persisted.session_type = "LONG_BREAK" /\ Persisted.work_sessions = 4

\* C5: cycle on a Finished LongBreak record starts a Running Work session
\* (end_time = now + 25 min) with the count reset to 0 whatever it was;
\* cycle on a Finished ShortBreak record starts a Running Work session with
\* the count unchanged.
C5_CycleAfterBreak ==
    (Ran /\ inv.cmd = "cycle" /\ inv.loaded.state = "FINISHED")
    => /\ inv.loaded.session_type = "LONG_BREAK" =>
            /\ PersistedIs(inv.saved)
            /\ inv.saved.state = "RUNNING" /\ inv.saved.session_type = "WORK"
            /\ inv.saved.end_time = inv.now1 + 25 * 60
            /\ inv.saved.work_sessions = 0
       /\ inv.loaded.session_type = "SHORT_BREAK" =>
            /\ PersistedIs(inv.saved)
            /\ inv.saved.state = "RUNNING" /\ inv.saved.session_type = "WORK"
            /\ inv.saved.end_time = inv.now1 + 25 * 60
            /\ inv.saved.work_sessions = inv.loaded.work_sessions

\* C5 witness: a Finished LongBreak with a non-zero count was acknowledged
C5_Witness ==
    /\ Ran /\ inv.cmd = "cycle"
    /\ inv.loaded.state = "FINISHED" /\ inv.loaded.session_type = "LONG_BREAK"
    /\ inv.loaded.work_sessions > 0
    /\ Persisted.state = "RUNNING" /\ Persisted.work_sessions = 0

\* C6: cycle on a Stopped record starts the first Work session: Running,
\* Work, end_time = now + 25 min, remaining_secs = 1500, count 0, whatever
\* count the Stopped record held.
C6_CycleFromStopped ==
    (Ran /\ inv.cmd = "cycle" /\ inv.loaded.state = "STOPPED")
    => PersistedIs([state |-> "RUNNING", session_type |-> "WORK",
                    end_time |-> inv.now1 + 25 * 60,
                    remaining_secs |-> Secs(1500), work_sessions |-> 0])

\* C6 witness: a Stopped record holding a non-zero count was cycled
C6_Witness ==
    /\ Ran /\ inv.cmd = "cycle"
    /\ inv.loaded.state = "STOPPED" /\ inv.loaded.work_sessions > 0
    /\ Persisted.state = "RUNNING"

\* C7: stop from any loaded record, at any instant, persists exactly the
\* canonical default record.
C7_StopGivesDefault ==
    (Ran /\ inv.cmd = "stop") => PersistedIs(DefaultRecord)

\* C7 witness: a Paused break with a count and a remaining time was stopped
C7_Witness ==
    /\ Ran /\ inv.cmd = "stop"
    /\ inv.loaded.state = "PAUSED" /\ inv.loaded.session_type = "LONG_BREAK"
    /\ inv.loaded.work_sessions = 4 /\ inv.loaded.remaining_secs > 0
    /\ Persisted.state = "STOPPED"

\* C8: cycle while a session is active is an abort, not a skip: on a Paused
\* record, or a Running one with now < end_time, it persists exactly what
\* stop would persist, the canonical default record, and starts nothing.
C8_CycleAborts ==
    (/\ Ran /\ inv.cmd = "cycle"
     /\ \/ inv.loaded.state = "PAUSED"
        \/ /\ inv.loaded.state = "RUNNING"
           /\ inv.loaded.end_time # None
           /\ inv.now1 < inv.loaded.end_time)
    => /\ PersistedIs(DefaultRecord)
       /\ inv.saved
            = get_output(Dispatch(inv.loaded, "stop", inv.now1).st, inv.now2).st
       /\ inv.out.class = "stopped"

\* C8 witness: a Running short break with time left was cycled
C8_Witness ==
    /\ Ran /\ inv.cmd = "cycle"
    /\ inv.loaded.state = "RUNNING" /\ inv.loaded.session_type = "SHORT_BREAK"
    /\ inv.loaded.end_time # None /\ inv.now1 < inv.loaded.end_time
    /\ Persisted.state = "STOPPED"

\* C9: toggle on a Stopped or Finished record is a silent no-op: the
\* persisted record equals the loaded one in every field and no error
\* payload is produced.
C9_ToggleIdle ==
    (Ran /\ inv.cmd = "toggle" /\ inv.loaded.state \in {"STOPPED", "FINISHED"})
    => /\ PersistedIs(inv.loaded)
       /\ ~inv.err
       /\ inv.out.class \in {"stopped", "finished"}

\* C9 witness: a Finished record with a remaining time stored was toggled
C9_Witness ==
    /\ Ran /\ inv.cmd = "toggle"
    /\ inv.loaded.state = "FINISHED" /\ inv.loaded.remaining_secs > 0
    /\ inv.wrote

\* what the claim calls schema-invalid: an unknown run_state or
\* session_type tag, a missing field, a malformed end_time timestamp, a
\* non-numeric remaining_secs or work_sessions
SchemaInvalid(data) ==
    \/ ~(data.state.k = "str" /\ data.state.s \in TimerState)
    \/ ~(data.session_type.k = "str" /\ data.session_type.s \in SessionType)
    \/ \E f \in DOMAIN data : data[f].k = "absent"
    \/ (data.end_time.k = "str" /\ data.end_time.s # "")
    \/ data.remaining_secs.k \notin {"int", "frac"}
    \/ data.work_sessions.k \notin {"int", "frac"}

\* C10: load never raises and returns the canonical default record whenever
\* the state file is missing, empty, unreadable, not valid JSON or
\* schema-invalid.
C10_LoadFallsBack ==
    (inv.cmd = "load" /\ (file.kind # "object" \/ SchemaInvalid(file.data)))
    => (~inv.raised /\ inv.loaded = DefaultRecord)

\* C11: remaining_secs >= 0 in every record persisted after any sequence of
\* runs at non-decreasing times from the default record; a Paused record
\* never holds a negative remaining_secs, so the Paused MM:SS has
\* non-negative minutes and seconds.
C11_RemainingNonNegative ==
    /\ Persisted.remaining_secs >= 0
    /\ (Ran /\ inv.out.class = "paused") =>
            (inv.out.mins >= 0 /\ inv.out.secs >= 0)

\* C12: in every record persisted after any sequence of runs from the
\* default record, end_time is present if and only if run_state = Running.
C12_EndTimeIffRunning ==
    (Persisted.state = "RUNNING") <=> (Persisted.end_time # None)

\* C12 witness: a session was paused with time left and has just been
\* resumed, so end_time was cleared and set again
C12_Witness ==
    /\ Ran /\ inv.cmd = "toggle"
    /\ inv.loaded.state = "PAUSED" /\ inv.loaded.end_time = None
    /\ inv.loaded.remaining_secs > 0
    /\ Persisted.state = "RUNNING" /\ Persisted.end_time > clock

\* the classes the host styles
PayloadClasses == {"stopped", "finished", "paused", "work", "break", "error"}

\* C13: every run writes one payload whose class is one of stopped,
\* finished, paused, work, break, error; when command processing fails with
\* a runtime error (a loaded record that is Running with no end_time, under
\* toggle or a status poll) the payload has class error, and otherwise the
\* class is that of the record the run persisted.
C13_AlwaysAPayload ==
    inv.cmd \in Commands =>
        /\ inv.out.class \in PayloadClasses
        /\ inv.err <=> inv.out.class = "error"
        /\ inv.err => ~inv.wrote
        /\ (/\ ~inv.raised
            /\ inv.loaded.state = "RUNNING" /\ inv.loaded.end_time = None
            /\ inv.cmd \in {"toggle", "status", "skip"}) => inv.err
        /\ ~inv.err =>
              inv.out.class =
                CASE inv.saved.state = "STOPPED" -> "stopped"
                  [] inv.saved.state = "FINISHED" -> "finished"
                  [] inv.saved.state = "PAUSED" -> "paused"
                  [] OTHER -> IF inv.saved.session_type = "WORK"
                              THEN "work" ELSE "break"

\* C13 witness: a Running record without end_time was toggled and the run
\* ended with the error payload
C13_Witness ==
    /\ inv.cmd = "toggle" /\ ~inv.raised
    /\ inv.loaded.state = "RUNNING" /\ inv.loaded.end_time = None
    /\ inv.err /\ inv.out.class = "error"

\* C14: an unrecognized command token is a usage error: it is not processed
\* as a status run, so no normal status payload is emitted and the state
\* file is not rewritten for it.
C14_UnknownTokenRejected ==
    inv.cmd = "skip" =>
        /\ ~inv.wrote
        /\ inv.out.class \notin {"stopped", "finished", "paused", "work", "break"}

\* C15: for every Finished record, the next session the tooltip names is
\* the session_type of the record cycle would start from that record
\* (LongBreak iff Work and (count + 1) mod 4 = 0, ShortBreak for other
\* Work, Work after either break), and computing it leaves the record as it
\* was.
C15_TooltipNamesNext ==
    (Ran /\ inv.wrote /\ inv.saved.state = "FINISHED")
    => LET rec == inv.saved
           long == rec.session_type = "WORK"
                   /\ (rec.work_sessions + 1) % 4 = 0
           next == IF long THEN "LONG_BREAK"
                   ELSE IF rec.session_type = "WORK" THEN "SHORT_BREAK"
                   ELSE "WORK"
       IN  /\ inv.out.class = "finished"
           /\ inv.out.next = SessionValue(next)
           /\ inv.out.next
                = SessionValue(cycle_state(rec, inv.now2).session_type)
           /\ inv.out.session = SessionValue(rec.session_type)
           /\ Persisted = rec
           /\ get_output(rec, inv.now2).st = rec
           /\ (inv.loaded.state = "FINISHED"
                 /\ inv.cmd \in {"status", "toggle", "skip"}) => rec = inv.loaded

\* C15 witness: the fourth Work session is shown finished and the tooltip
\* announces the long break
C15_Witness ==
    /\ Ran /\ inv.cmd = "status" /\ inv.wrote
    /\ inv.saved.state = "FINISHED" /\ inv.saved.session_type = "WORK"
    /\ inv.saved.work_sessions = 3
    /\ inv.out.next = "LONG BREAK"

\* a run that went through to save_state
Saved == Ran /\ inv.wrote

\* cycle on a record loaded as Finished with the given session type
CycleOnFinished(type) ==
    /\ inv.cmd = "cycle"
    /\ inv.loaded.state = "FINISHED"
    /\ inv.loaded.session_type = type

\* C17 as stated: work_sessions_completed changes only by Cycle on
\* Finished/Work (+1) and by Cycle on Finished/LongBreak (to 0); in every
\* other transition (Toggle, status, the completion check, Stop, Cycle on
\* Running/Paused/Stopped, Cycle on Finished/ShortBreak) the persisted count
\* equals the loaded one.
C17_CountFrame ==
    Saved =>
        CASE CycleOnFinished("WORK") ->
                 inv.saved.work_sessions = inv.loaded.work_sessions + 1
          [] CycleOnFinished("LONG_BREAK") -> inv.saved.work_sessions = 0
          [] OTHER -> inv.saved.work_sessions = inv.loaded.work_sessions

\* C17 amended: the persisted count is the loaded one, the loaded one plus
\* 1, or 0. It is the loaded one plus 1 exactly after Cycle on
\* Finished/Work; Toggle, status, the completion check and Cycle on
\* Finished/ShortBreak keep it; only Stop and Cycle change it, and they
\* reset it to 0: Stop from any state, Cycle on Finished/LongBreak, on
\* Stopped, on Paused and on Running with now < end_time.
C17_CountFrameWithResets ==
    Saved =>
        LET old == inv.loaded.work_sessions
            new == inv.saved.work_sessions
            live == inv.loaded.state = "RUNNING"
                    /\ inv.loaded.end_time # None
                    /\ inv.now1 < inv.loaded.end_time
        IN  /\ new \in {old, old + 1, 0}
            /\ Persisted.work_sessions = new
            /\ new # old => inv.cmd \in {"stop", "cycle"}
            /\ CycleOnFinished("WORK") => new = old + 1
            /\ (new = old + 1 /\ new # 0) => CycleOnFinished("WORK")
            /\ CycleOnFinished("SHORT_BREAK") => new = old
            /\ inv.cmd \in {"toggle", "status"} => new = old
            /\ inv.cmd = "stop" => new = 0
            /\ (/\ inv.cmd = "cycle"
                /\ \/ CycleOnFinished("LONG_BREAK")
                   \/ inv.loaded.state \in {"STOPPED", "PAUSED"}
                   \/ live) => new = 0

\* C17 witness: stop on a record with completed sessions, count reset
C17_Witness ==
    /\ Saved /\ inv.cmd = "stop"
    /\ inv.loaded.work_sessions = 2
    /\ Persisted.work_sessions = 0

\* C18: a status run makes no change beyond the completion check: for every
\* loaded record that is Stopped, Paused, Finished, or Running with
\* now < end_time, the persisted record equals the loaded record in every
\* field.
C18_StatusChangesNothing ==
    (/\ Ran /\ inv.cmd = "status"
     /\ \/ inv.loaded.state \in {"STOPPED", "PAUSED", "FINISHED"}
        \/ /\ inv.loaded.state = "RUNNING"
           /\ inv.loaded.end_time # None
           /\ inv.now2 < inv.loaded.end_time)
    => PersistedIs(inv.loaded)

\* C18 witness: a status poll of a session that is still running
C18_Witness ==
    /\ Ran /\ inv.cmd = "status"
    /\ inv.loaded.state = "RUNNING" /\ inv.loaded.end_time # None
    /\ inv.now2 < inv.loaded.end_time
    /\ Persisted = inv.loaded

\* the counter agrees with the phase
CountInPhase(rec) ==
    /\ rec.work_sessions \in 0..SESSIONS_PER_CYCLE
    /\ rec.session_type = "LONG_BREAK"
          => rec.work_sessions = SESSIONS_PER_CYCLE
    /\ rec.session_type = "SHORT_BREAK"
          => rec.work_sessions \in 1..(SESSIONS_PER_CYCLE - 1)
    /\ rec.session_type = "WORK"
          => rec.work_sessions \in 0..(SESSIONS_PER_CYCLE - 1)

\* C19: in every record reachable from the default record,
\* 0 <= work_sessions_completed <= 4, LongBreak implies the count is 4,
\* ShortBreak implies it is in 1..3 and Work implies it is in 0..3.
C19_CountInPhase == CountInPhase(Persisted)

\* C19 witness: the long break started after the fourth Work session
C19_Witness ==
    /\ Saved /\ CycleOnFinished("WORK")
    /\ inv.loaded.work_sessions = 3
    /\ Persisted.state = "RUNNING"
    /\ Persisted.session_type = "LONG_BREAK"
    /\ Persisted.work_sessions = 4

\* the same consistency as a step property from any record: a run that
\* loads a consistent record persists a consistent record
C19_Preserved ==
    (Saved /\ CountInPhase(inv.loaded)) => CountInPhase(inv.saved)

\* the record two runs leave when the second loads after the first saved
Sequential(base, first, t1, second, t2) ==
    LET r1 == main(base, first, t1, t1)
        f1 == IF r1.wrote THEN save_state(r1.saved) ELSE base
    IN  main(f1, second, t2, t2).saved

\* two overlapping toggles on a session that is Running with time left
TogglesOverlapped ==
    /\ race.set /\ race.a = "toggle" /\ race.b = "toggle"
    /\ load_state(race.base).rec.state = "RUNNING"
    /\ load_state(race.base).rec.end_time # None
    /\ load_state(race.base).rec.end_time > race.t2

\* C16: runs are not serialised: when two runs overlap so that both load
\* the state file before either saves, the record finally persisted is the
\* last writer's command applied to the record both loaded (the first
\* writer's update is lost); for two overlapping toggles on a Running
\* record that leaves it Paused, where both sequential orders leave it
\* Running.
C16_LostUpdate ==
    race.set =>
        /\ Persisted = race.final
        /\ race.final = main(race.base, race.b, race.t2, race.t2).saved
        /\ TogglesOverlapped =>
              /\ race.final.state = "PAUSED"
              /\ Sequential(race.base, race.a, race.t1, race.b, race.t2).state
                    = "RUNNING"
              /\ Sequential(race.base, race.b, race.t1, race.a, race.t2).state
                    = "RUNNING"

\* C16 witness: two toggles overlapped on a Running record and the record
\* persisted differs from the result of both sequential orders
C16_Witness ==
    /\ TogglesOverlapped
    /\ Persisted.state = "PAUSED"
    /\ Persisted # Sequential(race.base, race.a, race.t1, race.b, race.t2)
    /\ Persisted # Sequential(race.base, race.b, race.t1, race.a, race.t2)

\* a session is Running and ends within the modelled time
RunningDue ==
    /\ Persisted.state = "RUNNING"
    /\ Persisted.end_time # None
    /\ Persisted.end_time <= LastInstant

\* the session has been shown Finished
ShownFinished ==
    /\ Persisted.state = "FINISHED"
    /\ Persisted.end_time = None
    /\ Persisted.remaining_secs = 0

\* a command paused, stopped or cycled the session
Intervened == Saved /\ inv.cmd \in {"toggle", "stop", "cycle"}

\* a status run at or after the end of the Running session it loaded
StatusAfterEnd ==
    /\ Ran /\ inv.cmd = "status"
    /\ inv.loaded.state = "RUNNING"
    /\ inv.loaded.end_time # None
    /\ inv.now2 >= inv.loaded.end_time

\* C20: ticking by polling is live: if the clock keeps advancing and status
\* runs keep occurring, every Running session that is not paused, stopped
\* or cycled eventually becomes Finished (end_time absent,
\* remaining_secs = 0, same session_type), at the first status run with
\* now >= end_time, without any explicit command. The polls the fairness
\* of SpecLive stands on are status runs.
C20_PollingFinishes ==
    /\ RunningDue ~> (ShownFinished \/ Intervened)
    /\ [](StatusAfterEnd => PersistedIs(TurnedFinished(inv.loaded)))
    /\ [][Poll <=> (Due /\ Invoke("status", 0))]_vars

\* C20 witness: a status poll found the Work session over and persisted it
\* as Finished
C20_Witness ==
    /\ StatusAfterEnd
    /\ inv.loaded.session_type = "WORK"
    /\ Persisted = TurnedFinished(inv.loaded)
    /\ ShownFinished

====
